---- MODULE Spec2Model ----
(***************************************************************************)
(* Model of silver_bot.py: the change-detection pipeline of the silver     *)
(* price notifier (extract, canonicalize, fingerprint, compare with the    *)
(* persisted snapshot, notify with retry, commit).                         *)
(*                                                                         *)
(* Text is a sequence of Unicode code points (naturals), so that Python's  *)
(* str.replace, str.strip, re.sub and the ordering of str are computed     *)
(* character by character as the interpreter computes them.                *)
(***************************************************************************)
EXTENDS Integers, Sequences, FiniteSets, TLC

VARIABLES
    env,            \* which configuration values the environment provides
    gist,           \* the remote Gist: [status, content of silver_price_snapshot.txt]
    file,           \* the local file last_silver_price.txt: [exists, content]
    origin,         \* history: for each store, whether its content is the initial one
    pc,             \* position of each run of main()
    items,          \* main's local: the extracted SilverItems
    snapshot_text,  \* main's local
    last_text,      \* main's local
    attempt,        \* send_telegram_message's loop variable
    log,            \* history: what each run has done so far
    prev,           \* history: the log of the most recently finished run
    obs,            \* history: the order of the observations behind runs and stores
    hist,           \* history: the last delivered snapshot, while no read or write failed
    arg,            \* input of the pure function under check
    out,            \* results of the pure function under check
    fpc             \* position of the pure-function check

mainVars == <<env, gist, file, origin, pc, items, snapshot_text, last_text, attempt, log, prev,
              obs, hist>>
fnVars == <<arg, out, fpc>>
vars == <<env, gist, file, origin, pc, items, snapshot_text, last_text, attempt, log, prev,
          obs, hist, arg, out, fpc>>

----------------------------------------------------------------------------
\* Code points of the characters the program names or the inputs use.
LF == 10
CR == 13
SP == 32
HYPHEN == 45
ZERO == 48
BAR == 124
NBSP == 160
EMDASH == 8212

TELEGRAM_RETRIES == 3
TELEGRAM_RETRY_DELAY == 3

\* The characters for which Python's str.isspace() holds: what str.strip()
\* removes and what the pattern \s matches on str.
Whitespace ==
    {9, 10, 11, 12, 13, 28, 29, 30, 31, 32, 133, 160, 5760, 8232, 8233, 8239, 8287, 12288}
        \cup (8192..8202)

Min(S) == CHOOSE x \in S : \A y \in S : x <= y
Max(S) == CHOOSE x \in S : \A y \in S : x >= y

IsPrefix(p, s) == Len(p) <= Len(s) /\ SubSeq(s, 1, Len(p)) = p

\* str.replace(old, new): the non-overlapping occurrences of old, left to right.
RECURSIVE str_replace(_, _, _)
str_replace(s, old, new) ==
    IF Len(s) = 0 THEN <<>>
    ELSE IF IsPrefix(old, s)
         THEN new \o str_replace(SubSeq(s, Len(old) + 1, Len(s)), old, new)
         ELSE <<Head(s)>> \o str_replace(Tail(s), old, new)

\* str.strip(): leading and trailing whitespace removed.
str_strip(s) ==
    LET keep == {i \in 1..Len(s) : s[i] \notin Whitespace}
    IN  IF keep = {} THEN <<>> ELSE SubSeq(s, Min(keep), Max(keep))

\* re.sub(r"\s+", " ", s): every maximal run of whitespace becomes one space.
RECURSIVE re_sub_spaces(_)
re_sub_spaces(s) ==
    IF Len(s) = 0 THEN <<>>
    ELSE IF Head(s) \in Whitespace
         THEN LET rest == {i \in 1..Len(s) : s[i] \notin Whitespace}
              IN  <<SP>> \o (IF rest = {} THEN <<>>
                             ELSE re_sub_spaces(SubSeq(s, Min(rest), Len(s))))
         ELSE <<Head(s)>> \o re_sub_spaces(Tail(s))

normalize_name(s) == re_sub_spaces(str_strip(str_replace(s, <<NBSP>>, <<SP>>)))

\* NBSP -> space, then CRLF -> LF (one pass of str.replace), then strip.
\* Each replace is made once and its result named, as Python evaluates the
\* chain of calls.
canonicalize_text_blob(s) ==
    CHOOSE blob \in {str_strip(unix) :
                        unix \in {str_replace(spaced, <<CR, LF>>, <<LF>>) :
                                     spaced \in {str_replace(s, <<NBSP>>, <<SP>>)}}} : TRUE

----------------------------------------------------------------------------
\* Optional[int]: None is the empty sequence, a value n is <<n>>.
None == <<>>
Some(n) == <<n>>

\* str(n) for a natural n: its decimal digits.
RECURSIVE str_int(_)
str_int(n) ==
    IF n < 10 THEN <<ZERO + n>> ELSE str_int(n \div 10) \o <<ZERO + (n % 10)>>

\* int(digits) for a non-empty string of decimal digits.
RECURSIVE int_digits(_)
int_digits(d) ==
    IF Len(d) = 0 THEN 0
    ELSE int_digits(SubSeq(d, 1, Len(d) - 1)) * 10 + (d[Len(d)] - ZERO)

IsDigit(c) == c \in ZERO..(ZERO + 9)

RECURSIVE SelectDigits(_)
SelectDigits(s) ==
    IF Len(s) = 0 THEN <<>>
    ELSE (IF IsDigit(Head(s)) THEN <<Head(s)>> ELSE <<>>) \o SelectDigits(Tail(s))

parse_vnd_commas(value) ==
    LET v == str_strip(value)
        digits == SelectDigits(v)
    IN  IF v \in {<<>>, <<HYPHEN>>, <<EMDASH>>} THEN None
        ELSE IF Len(digits) > 0 THEN Some(int_digits(digits)) ELSE None

SilverItem(name, unit, buy, sell) == [name |-> name, unit |-> unit, buy |-> buy, sell |-> sell]

\* The order of str: lexicographic by code point, a proper prefix first.
RECURSIVE StrLess(_, _)
StrLess(a, b) ==
    IF Len(b) = 0 THEN FALSE
    ELSE IF Len(a) = 0 THEN TRUE
    ELSE IF Head(a) # Head(b) THEN Head(a) < Head(b)
    ELSE StrLess(Tail(a), Tail(b))

\* The sort key of canonical_snapshot: lambda x: (x[0], x[1]).
SortKey(x) == <<x[1], x[2]>>

KeyLess(k1, k2) == StrLess(k1[1], k2[1]) \/ (k1[1] = k2[1] /\ StrLess(k1[2], k2[2]))

\* list.sort is stable: a row goes after every row already placed whose key
\* is not greater than its own.
RECURSIVE SortRows(_)
SortRows(rows) ==
    IF Len(rows) = 0 THEN <<>>
    ELSE LET sorted == SortRows(SubSeq(rows, 1, Len(rows) - 1))
             r == rows[Len(rows)]
             k == Cardinality({i \in 1..Len(sorted) : ~KeyLess(SortKey(r), SortKey(sorted[i]))})
         IN  SubSeq(sorted, 1, k) \o <<r>> \o SubSeq(sorted, k + 1, Len(sorted))

RECURSIVE JoinLines(_)
JoinLines(lines) ==
    IF Len(lines) = 0 THEN <<>>
    ELSE IF Len(lines) = 1 THEN lines[1]
    ELSE lines[1] \o <<LF>> \o JoinLines(Tail(lines))

SnapshotRow(it) ==
    <<normalize_name(it.name), normalize_name(it.unit),
      IF it.buy = None THEN <<>> ELSE str_int(it.buy[1]),
      IF it.sell = None THEN <<>> ELSE str_int(it.sell[1])>>

SnapshotLine(r) ==
    r[1] \o <<SP, BAR, SP>> \o r[2] \o <<SP, BAR, SP>> \o r[3] \o <<SP, BAR, SP>> \o r[4]

\* Variant of canonical_snapshot without the final strip().
canonical_snapshot_NoStrip(its) ==
    LET rows == SortRows([i \in 1..Len(its) |-> SnapshotRow(its[i])])
    IN  JoinLines([i \in 1..Len(rows) |-> SnapshotLine(rows[i])])

canonical_snapshot(its) ==
    LET rows == SortRows([i \in 1..Len(its) |-> SnapshotRow(its[i])])
    IN  str_strip(JoinLines([i \in 1..Len(rows) |-> SnapshotLine(rows[i])]))

\* SHA-256 as a collision-free digest: the digest of a text is represented by
\* the record naming the bytes hashed, so two digests are equal exactly when
\* the texts are.
sha256_text(s) == [sha256 |-> s]

----------------------------------------------------------------------------
\* The source page. A page is what BeautifulSoup finds in it: whether
\* #priceListContainer and its table are there, and the table's body rows;
\* a row is the text of its td cells (get_text(" ", strip=True)) and the
\* colspan attribute of the first one.
Row(cells, colspan) == [cells |-> cells, colspan |-> colspan]

RowHeader == Row(<< <<71>> >>, "4")                                  \* <td colspan="4">G</td>
RowA15 == Row(<< <<65, NBSP, 67>>, <<107, 103>>, <<49, 44, 53>>, <<HYPHEN>> >>, "")   \* A&nbsp;C kg 1,5 -
RowA15s == Row(<< <<65, SP, 67>>, <<107, 103>>, <<49, 53>>, <<>> >>, "")              \* A C kg 15 ""
RowA16 == Row(<< <<65, SP, 67>>, <<107, 103>>, <<49, 44, 54>>, <<HYPHEN>> >>, "")     \* A C kg 1,6 -
RowB == Row(<< <<66>>, <<107, 103>>, <<55>>, <<56>> >>, "")                           \* B kg 7 8
RowNoPrice == Row(<< <<66>>, <<107, 103>>, <<EMDASH>>, <<120>> >>, "")                \* B kg — x
RowNoName == Row(<< <<SP>>, <<107, 103>>, <<55>>, <<56>> >>, "")
RowShort == Row(<< <<66>>, <<107, 103>>, <<55>> >>, "")
RowEmpty == Row(<<>>, "")

Page(container, table, rows) == [container |-> container, table |-> table, rows |-> rows]

PageIds == {"A", "A2", "AB", "BA", "none", "nocontainer", "notable"}

Pages ==
    [id \in PageIds |->
        CASE id = "A" -> Page(TRUE, TRUE, <<RowHeader, RowA15>>)
          [] id = "A2" -> Page(TRUE, TRUE, <<RowHeader, RowA16>>)
          [] id = "AB" -> Page(TRUE, TRUE, <<RowHeader, RowA15, RowB>>)
          [] id = "BA" -> Page(TRUE, TRUE, <<RowEmpty, RowB, RowShort, RowNoPrice, RowA15s>>)
          [] id = "none" -> Page(TRUE, TRUE, <<RowHeader, RowNoPrice, RowNoName, RowShort>>)
          [] id = "nocontainer" -> Page(FALSE, FALSE, <<>>)
          [] id = "notable" -> Page(TRUE, FALSE, <<>>)]

\* Variant of ParseRow that keeps a row only when both prices are there.
ParseRow_BothRequired(tr) ==
    LET tds == tr.cells
    IN  IF Len(tds) = 0 THEN <<>>
        ELSE IF Len(tds) = 1 /\ tr.colspan = "4" THEN <<>>
        ELSE IF Len(tds) < 4 THEN <<>>
        ELSE LET name == normalize_name(tds[1])
                 unit == normalize_name(tds[2])
                 buy == parse_vnd_commas(tds[3])
                 sell == parse_vnd_commas(tds[4])
             IN  IF name = <<>> \/ buy = None \/ sell = None THEN <<>>
                 ELSE <<SilverItem(name, unit, buy, sell)>>

\* The loop body of parse_silver_table: the items one row adds.
ParseRow(tr) ==
    LET tds == tr.cells
    IN  IF Len(tds) = 0 THEN <<>>
        ELSE IF Len(tds) = 1 /\ tr.colspan = "4" THEN <<>>
        ELSE IF Len(tds) < 4 THEN <<>>
        ELSE LET name == normalize_name(tds[1])
                 unit == normalize_name(tds[2])
                 buy == parse_vnd_commas(tds[3])
                 sell == parse_vnd_commas(tds[4])
             IN  IF name = <<>> \/ (buy = None /\ sell = None) THEN <<>>
                 ELSE <<SilverItem(name, unit, buy, sell)>>

RECURSIVE ParseRows(_)
ParseRows(rows) ==
    IF Len(rows) = 0 THEN <<>> ELSE ParseRow(Head(rows)) \o ParseRows(Tail(rows))

\* [raised |-> TRUE] for a RuntimeError, the items otherwise.
parse_silver_table(page) ==
    IF ~page.container \/ ~page.table THEN [raised |-> TRUE, items |-> <<>>]
    ELSE [raised |-> FALSE, items |-> ParseRows(page.rows)]

\* Variant of get_silver_price without the check for an empty result.
get_silver_price_NoEmptyCheck(fetched, page) ==
    IF ~fetched THEN [raised |-> TRUE, items |-> <<>>] ELSE parse_silver_table(page)

\* fetched is FALSE when requests.get or raise_for_status raises.
get_silver_price(fetched, page) ==
    IF ~fetched THEN [raised |-> TRUE, items |-> <<>>]
    ELSE LET parsed == parse_silver_table(page)
         IN  IF parsed.raised \/ Len(parsed.items) = 0 THEN [raised |-> TRUE, items |-> <<>>]
             ELSE parsed

----------------------------------------------------------------------------
\* The stores.
GistState(status, content) == [status |-> status, content |-> content]
FileState(exists, content) == [exists |-> exists, content |-> content]

\* A snapshot of page AB as another writer stored it: CRLF line ends, NBSP for
\* the spaces, a final line end.
ForeignText ==
    str_replace(str_replace(canonical_snapshot(ParseRows(Pages["AB"].rows)),
                            <<LF>>, <<CR, LF>>), <<SP>>, <<NBSP>>) \o <<CR, LF>>

InitGists == {GistState("missing", <<>>), GistState("nofile", <<>>), GistState("file", ForeignText)}
InitFiles == {FileState(FALSE, <<>>), FileState(TRUE, ForeignText)}

\* _get_gist_token() and GIST_ID both non-empty.
GistConfigured == env.gist_token /\ env.gist_id

\* The runs of main(); at most one is active at a time.
Runs == {1, 2}

NoLog ==
    [page |-> "", exit |-> "", readFrom |-> "", read |-> "", changed |-> FALSE,
     tries |-> <<>>, sent |-> FALSE, delays |-> <<>>, writes |-> <<>>,
     gist0 |-> GistState("missing", <<>>), file0 |-> FileState(FALSE, <<>>)]

Summary(l) ==
    [page |-> l.page, exit |-> l.exit, read |-> l.read, changed |-> l.changed,
     sent |-> l.sent, writes |-> l.writes]

\* The order of observations. after[q] holds the runs that fetched the page
\* after run q fetched it, newer[q][s] says that store s holds a snapshot of
\* an observation made after q's, and lost says that some run has overwritten
\* a snapshot of an observation newer than its own.
NoObs ==
    [after |-> [q \in Runs |-> {}],
     newer |-> [q \in Runs |-> [gist |-> FALSE, file |-> FALSE]],
     lost |-> FALSE]

\* Run q holds an observation that it may still write.
HoldsObservation(q) == pc[q] \in {"load", "compare", "render", "send", "save", "fallback"}

Observes(p) ==
    [obs EXCEPT !.after = [q \in Runs |->
                               IF q # p /\ HoldsObservation(q) THEN @[q] \cup {p} ELSE {}],
                !.newer[p] = [gist |-> FALSE, file |-> FALSE]]

Overwrites(p, s) ==
    [obs EXCEPT !.newer = [q \in Runs |->
                               [@[q] EXCEPT ![s] = q # p /\ HoldsObservation(q) /\ p \in obs.after[q]]],
                !.lost = @ \/ obs.newer[p][s]]

Forgets(p) ==
    [obs EXCEPT !.after[p] = {}, !.newer[p] = [gist |-> FALSE, file |-> FALSE]]

\* The snapshot of the last delivered notification, kept while the store in
\* use started empty and every read and every write of a store succeeded
\* (clean); repeated says that a notification was delivered with the
\* snapshot of the one delivered before it. Once a read or a write has
\* failed nothing more is recorded.
NoHist == [clean |-> FALSE, delivered |-> <<>>, repeated |-> FALSE]

Reads(kind) == IF hist.clean /\ kind \in {"ok", "nofile"} THEN hist ELSE NoHist

Delivers(p, ok) ==
    IF hist.clean /\ ok
    THEN [hist EXCEPT !.repeated = @ \/ snapshot_text[p] = hist.delivered,
                      !.delivered = snapshot_text[p]]
    ELSE hist

Writes(ok) == IF hist.clean /\ ok THEN hist ELSE NoHist

Init ==
    /\ env \in [bot_token : BOOLEAN, chat_id : BOOLEAN, gist_token : BOOLEAN, gist_id : BOOLEAN]
    /\ gist \in InitGists
    /\ file \in InitFiles
    /\ origin = [gist |-> "init", file |-> "init"]
    /\ pc = [p \in Runs |-> "idle"]
    /\ items = [p \in Runs |-> <<>>]
    /\ snapshot_text = [p \in Runs |-> <<>>]
    /\ last_text = [p \in Runs |-> <<>>]
    /\ attempt = [p \in Runs |-> 0]
    /\ log = [p \in Runs |-> NoLog]
    /\ prev = Summary(NoLog)
    /\ obs = NoObs
    /\ hist = [NoHist EXCEPT !.clean = ((IF GistConfigured THEN gist.content ELSE file.content) = <<>>)]
    /\ arg = <<>>
    /\ out = <<>>
    /\ fpc = "off"

----------------------------------------------------------------------------
\* load_last_data_from_gist: transport is FALSE when the GET, raise_for_status
\* or json() raises; every failure reads as the empty text.
load_last_data_from_gist(transport) ==
    IF ~transport THEN [kind |-> "error", text |-> <<>>]
    ELSE IF gist.status = "missing" THEN [kind |-> "404", text |-> <<>>]
    ELSE IF gist.status = "nofile" THEN [kind |-> "nofile", text |-> <<>>]
    ELSE [kind |-> "ok", text |-> gist.content]

load_last_data_from_file ==
    IF file.exists THEN [kind |-> "ok", text |-> file.content]
    ELSE [kind |-> "nofile", text |-> <<>>]

\* Variant of Backend that asks for the token alone.
Backend_TokenOnly == IF env.gist_token THEN "gist" ELSE "file"

\* The backend load_last_snapshot reads and save_last_snapshot writes first.
Backend == IF GistConfigured THEN "gist" ELSE "file"

load_last_snapshot(transport) ==
    IF Backend = "gist" THEN load_last_data_from_gist(transport) ELSE load_last_data_from_file

\* Variant of AfterLoad in which a failed GET is not caught and ends the run.
AfterLoad_Uncaught(kind) == IF kind = "error" THEN "done" ELSE "compare"

\* Where main goes after load_last_snapshot: whatever the read gave (the
\* text, a 404, no file entry, no local file, an exception caught at line
\* 213), the comparison.
AfterLoad(kind) == "compare"

\* Variant of Changed that hashes the stored text as it was read.
Changed_Raw(snapshot, last) ==
    sha256_text(snapshot) # sha256_text(last)

\* main's decision: snapshot_hash != last_hash.
Changed(snapshot, last) ==
    sha256_text(snapshot) # sha256_text(canonicalize_text_blob(last))

\* Variants of AfterAttempt with a slip in the loop: a failure after the last
\* attempt that does not raise, one attempt too many, and a success that does
\* not return.
AfterAttempt_NoRaise(ok, a) ==
    IF ok THEN "save" ELSE IF a < TELEGRAM_RETRIES THEN "send" ELSE "save"

AfterAttempt_OneMore(ok, a) ==
    IF ok THEN "save" ELSE IF a <= TELEGRAM_RETRIES THEN "send" ELSE "done"

AfterAttempt_NoReturn(ok, a) ==
    IF a < TELEGRAM_RETRIES THEN "send" ELSE IF ok THEN "save" ELSE "done"

\* Where send_telegram_message goes after an attempt: it returns on success,
\* tries again while attempt < retries, and raises after the last failure.
AfterAttempt(ok, a) ==
    IF ok THEN "save" ELSE IF a < TELEGRAM_RETRIES THEN "send" ELSE "done"

\* Whether the PATCH of save_last_data_to_gist succeeds: a Gist that does not
\* exist answers 404, which raise_for_status raises.
GistWritten(transport) == transport /\ gist.status # "missing"

\* Where save_last_snapshot goes after the Gist write: it returns on success
\* and falls through to the local file when the write raised.
AfterGistWrite(ok) == IF ok THEN "done" ELSE "fallback"

\* Variant of BotConfigured that checks the bot token alone.
BotConfigured_TokenOnly == env.bot_token

\* The configuration check of main: the bot token and the chat id.
BotConfigured == env.bot_token /\ env.chat_id

Note(p, l) == [log EXCEPT ![p] = l]

\* main, lines 342-349: the run starts and reads the bot configuration.
Begin(p) ==
    /\ pc[p] = "idle"
    /\ LET l == [NoLog EXCEPT !.gist0 = gist, !.file0 = file]
       IN  IF BotConfigured
           THEN pc' = [pc EXCEPT ![p] = "fetch"] /\ log' = Note(p, l)
           ELSE pc' = [pc EXCEPT ![p] = "done"] /\ log' = Note(p, [l EXCEPT !.exit = "config"])
    /\ UNCHANGED <<env, gist, file, origin, items, snapshot_text, last_text, attempt, prev, obs, hist, arg, out, fpc>>

\* The invoker starts a run only when no run is active.
Start(p) == (\A q \in Runs : pc[q] = "idle") /\ Begin(p)

\* main, lines 351-358: extraction, then the canonical snapshot.
GetSilverPrice(p) ==
    /\ pc[p] = "fetch"
    /\ \E fetched \in BOOLEAN, id \in PageIds :
         LET r == get_silver_price(fetched, Pages[id])
             l == [log[p] EXCEPT !.page = IF fetched THEN id ELSE "unfetched"]
         IN  IF r.raised
             THEN /\ pc' = [pc EXCEPT ![p] = "done"]
                  /\ log' = Note(p, [l EXCEPT !.exit = "extract"])
                  /\ UNCHANGED <<items, snapshot_text, obs>>
             ELSE /\ pc' = [pc EXCEPT ![p] = "load"]
                  /\ log' = Note(p, l)
                  /\ items' = [items EXCEPT ![p] = r.items]
                  /\ snapshot_text' = [snapshot_text EXCEPT ![p] = canonical_snapshot(r.items)]
                  /\ obs' = Observes(p)
    /\ UNCHANGED <<env, gist, file, origin, last_text, attempt, prev, hist, arg, out, fpc>>

\* main, line 360.
LoadLastSnapshot(p) ==
    /\ pc[p] = "load"
    /\ \E transport \in BOOLEAN :
         LET r == load_last_snapshot(transport)
         IN  /\ last_text' = [last_text EXCEPT ![p] = r.text]
             /\ log' = Note(p, [log[p] EXCEPT !.readFrom = Backend, !.read = r.kind])
             /\ pc' = [pc EXCEPT ![p] = AfterLoad(r.kind)]
             /\ hist' = Reads(r.kind)
    /\ UNCHANGED <<env, gist, file, origin, items, snapshot_text, attempt, prev, obs, arg, out, fpc>>

\* main, lines 361-364 and 372-373.
Compare(p) ==
    /\ pc[p] = "compare"
    /\ IF Changed(snapshot_text[p], last_text[p])
       THEN /\ pc' = [pc EXCEPT ![p] = "render"]
            /\ log' = Note(p, [log[p] EXCEPT !.changed = TRUE])
       ELSE /\ pc' = [pc EXCEPT ![p] = "done"]
            /\ log' = Note(p, [log[p] EXCEPT !.exit = "unchanged"])
    /\ UNCHANGED <<env, gist, file, origin, items, snapshot_text, last_text, attempt, prev, obs, hist, arg, out, fpc>>

\* main, line 365: build_message renders the text of the notification (the
\* text itself plays no part in what follows), and send_telegram_message
\* enters its loop with attempt = 1.
BuildMessage(p) ==
    /\ pc[p] = "render"
    /\ pc' = [pc EXCEPT ![p] = "send"]
    /\ attempt' = [attempt EXCEPT ![p] = 1]
    /\ UNCHANGED <<env, gist, file, origin, items, snapshot_text, last_text, log, prev, obs, hist, arg, out, fpc>>

\* send_telegram_message, one pass of the loop: the POST, and on failure the
\* sleep before the next attempt or the RuntimeError after the last one.
\* Variant of Sleeps that waits longer before each further attempt.
Sleeps_Backoff(ok, a) ==
    IF ~ok /\ a < TELEGRAM_RETRIES THEN <<TELEGRAM_RETRY_DELAY * a>> ELSE <<>>

\* The time.sleep calls of one pass of the retry loop: one, of
\* TELEGRAM_RETRY_DELAY, after a failed attempt that is not the last.
Sleeps(ok, a) ==
    IF ~ok /\ a < TELEGRAM_RETRIES THEN <<TELEGRAM_RETRY_DELAY>> ELSE <<>>

SendAttempt(p) ==
    /\ pc[p] = "send"
    /\ \E ok \in BOOLEAN :
         LET next == AfterAttempt(ok, attempt[p])
             l == [log[p] EXCEPT !.tries = Append(@, ok), !.sent = ok]
         IN  /\ pc' = [pc EXCEPT ![p] = next]
             /\ attempt' = [attempt EXCEPT ![p] = IF next = "send" THEN @ + 1 ELSE @]
             /\ log' = Note(p, [l EXCEPT !.delays = @ \o Sleeps(ok, attempt[p]),
                                         !.exit = IF next = "done" THEN "delivery_failed" ELSE @])
             /\ hist' = Delivers(p, ok)
    /\ UNCHANGED <<env, gist, file, origin, items, snapshot_text, last_text, prev, obs, arg, out, fpc>>

\* Variant of SavedText that saves the text read from the store.
SavedText_Last(p) == last_text[p]

\* The text main hands to save_last_snapshot.
SavedText(p) == snapshot_text[p]

\* save_last_snapshot, lines 240-248: with the Gist configured, the PATCH.
SaveToGist(p) ==
    /\ pc[p] = "save"
    /\ GistConfigured
    /\ \E transport \in BOOLEAN :
         LET ok == GistWritten(transport)
             next == AfterGistWrite(ok)
             l == [log[p] EXCEPT !.writes = Append(@, [to |-> "gist", ok |-> ok])]
         IN  /\ pc' = [pc EXCEPT ![p] = next]
             /\ log' = Note(p, IF next = "done" THEN [l EXCEPT !.exit = "committed"] ELSE l)
             /\ IF ok
                THEN /\ gist' = GistState("file", SavedText(p))
                     /\ origin' = [origin EXCEPT !.gist = IF log[p].sent THEN "sent" ELSE "unsent"]
                     /\ obs' = Overwrites(p, "gist")
                ELSE UNCHANGED <<gist, origin, obs>>
             /\ hist' = Writes(ok)
    /\ UNCHANGED <<env, file, items, snapshot_text, last_text, attempt, prev, arg, out, fpc>>

\* save_last_snapshot, line 250: the local file, when the Gist is not
\* configured or its write raised. A write that raises (OSError) is taken to leave the
\* file as it was and is caught by main, line 370.
SaveToFile(p) ==
    /\ \/ pc[p] = "save" /\ ~GistConfigured
       \/ pc[p] = "fallback"
    /\ \E ok \in BOOLEAN :
         LET l == [log[p] EXCEPT !.writes = Append(@, [to |-> "file", ok |-> ok])]
         IN  /\ log' = Note(p, [l EXCEPT !.exit = IF ok THEN "committed" ELSE "commit_failed"])
             /\ IF ok
                THEN /\ file' = FileState(TRUE, SavedText(p))
                     /\ origin' = [origin EXCEPT !.file = IF log[p].sent THEN "sent" ELSE "unsent"]
                     /\ obs' = Overwrites(p, "file")
                ELSE UNCHANGED <<file, origin, obs>>
             /\ hist' = Writes(ok)
    /\ pc' = [pc EXCEPT ![p] = "done"]
    /\ UNCHANGED <<env, gist, items, snapshot_text, last_text, attempt, prev, arg, out, fpc>>

\* main returns; the process ends and the next invocation starts afresh.
Finish(p) ==
    /\ pc[p] = "done"
    /\ pc' = [pc EXCEPT ![p] = "idle"]
    /\ prev' = Summary(log[p])
    /\ log' = Note(p, NoLog)
    /\ items' = [items EXCEPT ![p] = <<>>]
    /\ snapshot_text' = [snapshot_text EXCEPT ![p] = <<>>]
    /\ last_text' = [last_text EXCEPT ![p] = <<>>]
    /\ attempt' = [attempt EXCEPT ![p] = 0]
    /\ obs' = Forgets(p)
    /\ UNCHANGED <<env, gist, file, origin, hist, arg, out, fpc>>

Run(p) ==
    \/ Start(p)
    \/ GetSilverPrice(p)
    \/ LoadLastSnapshot(p)
    \/ Compare(p)
    \/ BuildMessage(p)
    \/ SendAttempt(p)
    \/ SaveToGist(p)
    \/ SaveToFile(p)
    \/ Finish(p)

Next == \E p \in Runs : Run(p)

Spec == Init /\ [][Next]_vars

\* The steps of run p once it has started: each is a call that returns or
\* times out (REQUEST_TIMEOUT on every request, a bounded retry loop), so a
\* started run keeps taking them.
Proceed(p) ==
    \/ GetSilverPrice(p)
    \/ LoadLastSnapshot(p)
    \/ Compare(p)
    \/ BuildMessage(p)
    \/ SendAttempt(p)
    \/ SaveToGist(p)
    \/ SaveToFile(p)

\* The first run of main only: no run starts once one has finished.
StartOnce(p) == prev = Summary(NoLog) /\ Start(p)

NextOnce == \E p \in Runs : StartOnce(p) \/ Proceed(p) \/ Finish(p)

\* Fewer initial states: the bot token and the Gist token there, no local
\* file yet.
InitFair == Init /\ env.bot_token /\ env.gist_token /\ ~file.exists

\* Runs that overlap: the invoker starts a run whether or not another is
\* active (until a first run has finished), and the steps of the two
\* interleave in any order.
StartOverlap(p) == prev = Summary(NoLog) /\ Begin(p)

NextOverlap == \E p \in Runs : StartOverlap(p) \/ Proceed(p) \/ Finish(p)

SpecOverlap == InitFair /\ [][NextOverlap]_vars

FairSpec == InitFair /\ [][NextOnce]_vars /\ \A p \in Runs : WF_vars(Proceed(p))

----------------------------------------------------------------------------
\* The pure functions, each applied to inputs drawn from bounded sets while
\* no run of main is active.
MaxBlobLen == 5
MaxItems == 2
MaxCells == 4

SeqsUpTo(S, n) == UNION {[1..k -> S] : k \in 0..n}

NoRun ==
    /\ env = [bot_token |-> TRUE, chat_id |-> TRUE, gist_token |-> TRUE, gist_id |-> TRUE]
    /\ gist = GistState("nofile", <<>>)
    /\ file = FileState(FALSE, <<>>)
    /\ origin = [gist |-> "init", file |-> "init"]
    /\ pc = [p \in Runs |-> "idle"]
    /\ items = [p \in Runs |-> <<>>]
    /\ snapshot_text = [p \in Runs |-> <<>>]
    /\ last_text = [p \in Runs |-> <<>>]
    /\ attempt = [p \in Runs |-> 0]
    /\ log = [p \in Runs |-> NoLog]
    /\ prev = Summary(NoLog)
    /\ obs = NoObs
    /\ hist = NoHist

\* canonicalize_text_blob, once and then again on its own result.
BlobChars == {97, NBSP, CR, LF}

InitBlob ==
    /\ NoRun
    /\ arg \in SeqsUpTo(BlobChars, MaxBlobLen)
    /\ out = <<>>
    /\ fpc = "blob"

BlobOnce ==
    /\ fpc = "blob"
    /\ out' = <<canonicalize_text_blob(arg)>>
    /\ fpc' = "blob_again"
    /\ UNCHANGED <<arg, mainVars>>

BlobTwice ==
    /\ fpc = "blob_again"
    /\ out' = Append(out, canonicalize_text_blob(out[1]))
    /\ fpc' = "blob_done"
    /\ UNCHANGED <<arg, mainVars>>

NextBlob == BlobOnce \/ BlobTwice

SpecBlob == InitBlob /\ [][NextBlob]_vars

\* canonical_snapshot, on a list of items and on a permutation of it.
CanonItems ==
    {SilverItem(n, <<107, 103>>, b, s) :
        n \in {<<65>>, <<66>>}, b \in {None, Some(1), Some(2)}, s \in {None, Some(3)}}

PermutationsOf(n) == {f \in [1..n -> 1..n] : \A i, j \in 1..n : f[i] = f[j] => i = j}

Permuted(its, f) == [i \in 1..Len(its) |-> its[f[i]]]

InitCanon ==
    /\ NoRun
    /\ \E its \in SeqsUpTo(CanonItems, MaxItems) :
         \E f \in PermutationsOf(Len(its)) : arg = [items |-> its, shuffled |-> Permuted(its, f)]
    /\ out = <<>>
    /\ fpc = "canon"

CanonOriginal ==
    /\ fpc = "canon"
    /\ out' = <<canonical_snapshot(arg.items)>>
    /\ fpc' = "canon_shuffled"
    /\ UNCHANGED <<arg, mainVars>>

CanonShuffled ==
    /\ fpc = "canon_shuffled"
    /\ out' = Append(out, canonical_snapshot(arg.shuffled))
    /\ fpc' = "canon_done"
    /\ UNCHANGED <<arg, mainVars>>

NextCanon == CanonOriginal \/ CanonShuffled

SpecCanon == InitCanon /\ [][NextCanon]_vars

\* The loop body of parse_silver_table, on one table row.
CellTexts ==
    {<<>>, <<NBSP>>, <<HYPHEN>>, <<EMDASH>>, <<120>>,          \* "", nbsp, -, em dash, x
     <<SP, 49, 44, 53>>, <<65, NBSP, SP, 66>>}                 \* " 1,5", "A&nbsp; B"

InitRow ==
    /\ NoRun
    /\ \E cells \in SeqsUpTo(CellTexts, MaxCells), colspan \in {"", "4"} : arg = Row(cells, colspan)
    /\ out = <<>>
    /\ fpc = "row"

ParseOneRow ==
    /\ fpc = "row"
    /\ out' = ParseRow(arg)
    /\ fpc' = "row_done"
    /\ UNCHANGED <<arg, mainVars>>

NextRow == ParseOneRow

SpecRow == InitRow /\ [][NextRow]_vars

\* canonical_snapshot of a list of items, then canonicalize_text_blob of the
\* text it gave, as main does to the text it reads back.
RoundTripItems ==
    {SilverItem(n, u, b, s) :
        n \in {<<>>, <<65>>, <<NBSP, 65, CR, LF, 66>>}, u \in {<<107, 103>>, <<NBSP>>},
        b \in {None, Some(120)}, s \in {None, Some(0)}}

InitRoundTrip ==
    /\ NoRun
    /\ arg \in SeqsUpTo(RoundTripItems, MaxItems)
    /\ out = <<>>
    /\ fpc = "fresh"

RoundTripSnapshot ==
    /\ fpc = "fresh"
    /\ out' = <<canonical_snapshot(arg)>>
    /\ fpc' = "read_back"
    /\ UNCHANGED <<arg, mainVars>>

RoundTripBlob ==
    /\ fpc = "read_back"
    /\ out' = Append(out, canonicalize_text_blob(out[1]))
    /\ fpc' = "read_back_done"
    /\ UNCHANGED <<arg, mainVars>>

NextRoundTrip == RoundTripSnapshot \/ RoundTripBlob

SpecRoundTrip == InitRoundTrip /\ [][NextRoundTrip]_vars

----------------------------------------------------------------------------
\* C7: canonical_snapshot is order-invariant: a list of items and every
\* permutation of it, rows with the same name and unit but different prices
\* included, give the identical snapshot.
C7_OrderInvariant ==
    fpc = "canon_done" => out[1] = out[2]

\* C8: canonicalize_text_blob is idempotent: applied to its own result it
\* changes nothing, for every input text (a carriage return directly before
\* a CRLF included).
C8_Idempotent ==
    fpc = "blob_done" => out[2] = out[1]

----------------------------------------------------------------------------
\* What the properties of the runs speak of.

\* The text each store holds, as a read of it returns it.
Persisted(store) == IF store = "gist" THEN gist.content ELSE file.content

\* The canonical snapshots the pages can give.
CanonicalSnapshots ==
    {canonical_snapshot(ParseRows(Pages[id].rows)) :
        id \in {i \in PageIds : ~get_silver_price(TRUE, Pages[i]).raised}}

\* Run p has read the store and made its change decision.
Decided(p) == pc[p] \in {"render", "send", "save", "fallback", "done"} /\ log[p].read # ""

\* Since run p started, no store has changed.
StoresAsBefore(p) == gist = log[p].gist0 /\ file = log[p].file0

Successes(tries) == {i \in 1..Len(tries) : tries[i]}

\* C1: the persisted state is the initial baseline or a canonical snapshot
\* whose notification had been delivered in the run that wrote it; every
\* write of a store, attempted or done, comes after a successful send of the
\* same run.
C1_PersistedDelivered ==
    /\ \A s \in {"gist", "file"} :
         /\ origin[s] \in {"init", "sent"}
         /\ origin[s] = "sent" => Persisted(s) \in CanonicalSnapshots
    /\ origin.gist = "init" => gist \in InitGists
    /\ origin.file = "init" => file \in InitFiles
    /\ \A p \in Runs :
         /\ log[p].writes # <<>> => log[p].sent
         /\ pc[p] \in {"save", "fallback"} => log[p].sent

C1_Witness ==
    \E p \in Runs :
        /\ pc[p] = "done" /\ log[p].exit = "committed"
        /\ Backend = "gist" /\ origin.gist = "sent"
        /\ gist.content = snapshot_text[p]
        /\ log[p].gist0.status = "file"

\* C2: a run all of whose send attempts failed ends without a call of
\* save_last_snapshot, and leaves the remote and the local store as they were
\* when it started.
C2_FailedDeliveryNoCommit ==
    \A p \in Runs :
        (pc[p] = "done" /\ log[p].tries # <<>> /\ Successes(log[p].tries) = {}) =>
            /\ log[p].exit = "delivery_failed"
            /\ log[p].writes = <<>>
            /\ StoresAsBefore(p)

C2_Witness ==
    \E p \in Runs :
        /\ pc[p] = "done" /\ log[p].exit = "delivery_failed"
        /\ Successes(log[p].tries) = {}
        /\ log[p].gist0.status = "file" /\ log[p].file0.exists

\* C3: send_telegram_message makes at most 3 attempts, stops at the first
\* success, raises exactly when 3 attempts have failed, and returns only
\* after a successful attempt.
C3_BoundedRetry ==
    \A p \in Runs :
        LET tries == log[p].tries
        IN  /\ Len(tries) <= 3
            /\ Successes(tries) \subseteq {Len(tries)}
            /\ pc[p] = "send" => Successes(tries) = {} /\ attempt[p] = Len(tries) + 1
            /\ (tries # <<>> /\ pc[p] # "send") =>
                   /\ log[p].exit = "delivery_failed" <=>
                          (Len(tries) = 3 /\ Successes(tries) = {})
                   /\ log[p].exit # "delivery_failed" => Successes(tries) = {Len(tries)}
            /\ pc[p] \in {"save", "fallback"} => Successes(tries) # {}

C3_Witness ==
    \E p \in Runs :
        /\ pc[p] = "save"
        /\ log[p].tries = <<FALSE, FALSE, TRUE>>

\* C4: a run whose snapshot has the fingerprint of the normalized persisted
\* text sends nothing and leaves the stores as they were; and nothing before
\* the sending (extraction, canonicalization, the read, the comparison)
\* writes a store.
C4_GatedOnChange ==
    \A p \in Runs :
        /\ (Decided(p) /\ sha256_text(snapshot_text[p])
                            = sha256_text(canonicalize_text_blob(last_text[p]))) =>
               /\ pc[p] = "done"
               /\ log[p].tries = <<>>
               /\ log[p].writes = <<>>
               /\ StoresAsBefore(p)
        /\ pc[p] \in {"fetch", "load", "compare", "render"} =>
               log[p].writes = <<>> /\ StoresAsBefore(p)

C4_Witness ==
    \E p \in Runs :
        /\ pc[p] = "done" /\ log[p].exit = "unchanged"
        /\ last_text[p] = ForeignText
        /\ last_text[p] # snapshot_text[p]

\* C5: a run that extracted at least one record and read the persisted state
\* as empty decides changed = true.
C5_FirstRunChanged ==
    \A p \in Runs :
        (Decided(p) /\ last_text[p] = <<>>) => log[p].changed /\ snapshot_text[p] # <<>>

C5_Witness ==
    \E p \in Runs :
        /\ pc[p] = "render" /\ log[p].read = "nofile"
        /\ last_text[p] = <<>> /\ log[p].changed
        /\ prev.page = ""

\* The run logged in l wrote its snapshot to store s.
CommittedTo(l, s) == \E i \in DOMAIN l.writes : l.writes[i].ok /\ l.writes[i].to = s

\* The backend the configuration selects: the Gist when the token and the
\* Gist id are both there, the local file otherwise.
Configured == IF env.gist_token /\ env.gist_id THEN "gist" ELSE "file"

C9_NeverMixed ==
    \A p \in Runs :
        /\ log[p].readFrom # "" => log[p].readFrom = Configured
        /\ \A i \in DOMAIN log[p].writes : log[p].writes[i].to = log[p].readFrom

\* C9 (amended): the backend is the one the configuration selects; a run
\* writes first the backend it read; a run that read the local file writes
\* only the local file; a run that read the Gist writes the local file too
\* exactly when its write of the Gist failed; at most one write succeeds.
C9_MixedOnlyOnFallback ==
    \A p \in Runs :
        LET w == log[p].writes
        IN  /\ log[p].readFrom # "" => log[p].readFrom = Configured
            /\ Len(w) <= 2
            /\ Len(w) >= 1 => w[1].to = log[p].readFrom
            /\ Len(w) = 2 => w[1].to = "gist" /\ ~w[1].ok /\ w[2].to = "file"
            /\ (pc[p] = "done" /\ Len(w) = 1 /\ w[1].to = "gist") => w[1].ok
            /\ Cardinality({i \in DOMAIN w : w[i].ok}) <= 1

C9_Witness ==
    \E p \in Runs :
        /\ pc[p] = "done" /\ log[p].readFrom = "gist"
        /\ log[p].writes = <<[to |-> "gist", ok |-> FALSE], [to |-> "file", ok |-> TRUE]>>

\* The run logged in l delivered its notification and then failed to write
\* the configured store.
CommitFailed(l) == l.sent /\ l.writes # <<>> /\ ~l.writes[1].ok

\* What C10 says of the run itself: it ends in main's handlers, has sent
\* once, and the store the next run reads is as it was.
DegradedRun(p) ==
    (pc[p] = "done" /\ CommitFailed(log[p])) =>
        /\ log[p].exit \in {"committed", "commit_failed"}
        /\ Successes(log[p].tries) = {Len(log[p].tries)}
        /\ Backend = "gist" => gist = log[p].gist0
        /\ Backend = "file" => file = log[p].file0

\* C10 (as claimed): after a delivery followed by a failed commit the run
\* ends without a fatal error and without sending again, the persisted state
\* the next run reads is unchanged, and the next run on the same markup
\* decides changed = true and notifies again.
C10_CommitFailureRenotifies ==
    \A p \in Runs :
        /\ DegradedRun(p)
        /\ (Decided(p) /\ CommitFailed(prev) /\ prev.page = log[p].page) =>
               /\ log[p].changed
               /\ pc[p] \in {"save", "fallback", "done"} => log[p].tries # <<>>

\* C10 (amended): as claimed, the last part for a first run whose read of the
\* store did not fail: a first run that took a failed read for the empty
\* baseline may have notified a snapshot the store already held, and then the
\* next run decides changed = false.
C10_CommitFailureRenotifiesAfterRead ==
    \A p \in Runs :
        /\ DegradedRun(p)
        /\ (Decided(p) /\ CommitFailed(prev) /\ prev.read # "error"
                /\ prev.page = log[p].page) =>
               /\ log[p].changed
               /\ pc[p] \in {"save", "fallback", "done"} => log[p].tries # <<>>

C10_Witness ==
    \E p \in Runs :
        /\ pc[p] = "save" /\ log[p].changed /\ log[p].tries # <<>>
        /\ CommitFailed(prev) /\ prev.read = "ok" /\ prev.page = log[p].page
        /\ prev.exit = "commit_failed"

----------------------------------------------------------------------------
\* The exits of a run that has made its change decision.
DecisionExits == {"unchanged", "delivery_failed", "committed", "commit_failed"}

----------------------------------------------------------------------------
\* A run stopped by the configuration check: nothing fetched, read, sent or
\* written, both stores as they were.
FailedFast(p) ==
    /\ pc[p] = "done" /\ log[p].exit = "config"
    /\ log[p].page = "" /\ log[p].read = "" /\ log[p].tries = <<>> /\ log[p].writes = <<>>
    /\ StoresAsBefore(p)

\* C12 as stated: a run fails fast when any of the four configuration values
\* (bot credential, chat identifier, store credential, store resource
\* identifier) is absent.
C12_FailFastAnyAbsent ==
    \A p \in Runs :
        (pc[p] # "idle" /\ ~(env.bot_token /\ env.chat_id /\ env.gist_token /\ env.gist_id))
            => FailedFast(p)

\* C12 amended: a run fails fast exactly when the bot credential or the chat
\* identifier is absent; with both present and the store credential or the
\* store resource identifier absent the run goes on and keeps its persisted
\* state in the local file.
C12_FailFastBotConfig ==
    \A p \in Runs :
        /\ (pc[p] # "idle" /\ ~(env.bot_token /\ env.chat_id)) => FailedFast(p)
        /\ (pc[p] # "idle" /\ env.bot_token /\ env.chat_id) =>
               /\ log[p].exit # "config"
               /\ pc[p] # "done" \/ log[p].page # ""
        /\ (env.bot_token /\ env.chat_id /\ ~(env.gist_token /\ env.gist_id)) =>
               /\ log[p].readFrom \in {"", "file"}
               /\ \A i \in 1..Len(log[p].writes) : log[p].writes[i].to = "file"
               /\ gist = log[p].gist0 \/ pc[p] = "idle"

C12_Witness ==
    \E p \in Runs : FailedFast(p) /\ env.bot_token /\ ~env.chat_id /\ env.gist_token /\ env.gist_id

----------------------------------------------------------------------------
\* The page a run got gives no usable data: the fetch failed, the price
\* container or its table is missing, or no row of the table is kept.
Unusable(id) ==
    \/ id = "unfetched"
    \/ /\ id \in PageIds
       /\ \/ ~Pages[id].container
          \/ ~Pages[id].table
          \/ ParseRows(Pages[id].rows) = <<>>

\* C13: a run whose extraction fails (fetch error, missing container or
\* table, no usable row) ends there: no notification is attempted and the
\* persisted state is neither read nor written.
C13_ExtractionFailureAborts ==
    \A p \in Runs :
        /\ (log[p].page # "" /\ Unusable(log[p].page)) =>
               /\ pc[p] = "done" /\ log[p].exit = "extract"
               /\ log[p].read = "" /\ log[p].tries = <<>> /\ log[p].writes = <<>>
               /\ StoresAsBefore(p)
        /\ log[p].exit = "extract" => Unusable(log[p].page)

C13_Witness ==
    \E p \in Runs :
        /\ pc[p] = "done" /\ log[p].exit = "extract"
        /\ log[p].page = "none"
        /\ log[p].gist0.status = "file" /\ GistConfigured

----------------------------------------------------------------------------
\* C16: the wait between delivery attempts is the fixed TELEGRAM_RETRY_DELAY
\* (3), made exactly once after each failed attempt that is followed by
\* another attempt, and never after a successful attempt or after the last
\* failed one.
C16_FixedDelay ==
    \A p \in Runs :
        LET tries == log[p].tries
            delays == log[p].delays
        IN  /\ \A i \in 1..Len(delays) : delays[i] = 3
            /\ pc[p] = "send" => Len(delays) = Len(tries)
            /\ (pc[p] # "send" /\ tries # <<>>) => Len(delays) = Len(tries) - 1
            /\ tries = <<>> => delays = <<>>
            /\ \A i \in 1..Len(delays) : ~tries[i]

C16_Witness ==
    \E p \in Runs :
        /\ pc[p] = "done" /\ log[p].exit = "delivery_failed"
        /\ log[p].tries = <<FALSE, FALSE, FALSE>>
        /\ log[p].delays = <<3, 3>>

----------------------------------------------------------------------------
\* A price cell holds a price when it has a digit; a name is there when it
\* has a character that is not white space.
HasDigit(v) == \E i \in 1..Len(v) : v[i] \in 48..57
HasText(v) == \E i \in 1..Len(v) : v[i] \notin Whitespace \cup {NBSP}

\* C17: parse_silver_table emits a record for a row of at least four cells
\* exactly when the normalized name is non-empty and the buy or the sell
\* price is present; a row with one price is kept with the other absent; a
\* group-header row or a row of fewer than four cells adds nothing.
C17_RowKept ==
    fpc = "row_done" =>
        LET tds == arg.cells
        IN  /\ Len(tds) < 4 => out = <<>>
            /\ Len(tds) >= 4 =>
                   /\ out # <<>> <=> (HasText(tds[1]) /\ (HasDigit(tds[3]) \/ HasDigit(tds[4])))
                   /\ out # <<>> =>
                          /\ Len(out) = 1
                          /\ out[1].buy = None <=> ~HasDigit(tds[3])
                          /\ out[1].sell = None <=> ~HasDigit(tds[4])
                          /\ out[1].name # <<>>

C17_Witness ==
    /\ fpc = "row_done"
    /\ Len(arg.cells) = 4
    /\ arg.cells[3] = <<HYPHEN>> /\ arg.cells[4] = <<SP, 49, 44, 53>>
    /\ Len(out) = 1 /\ out[1].buy = None /\ out[1].sell = Some(15)

----------------------------------------------------------------------------
\* C18: a freshly computed canonical snapshot is a fixed point of
\* canonicalize_text_blob, so the text read back unmodified has the digest
\* of the text that was written.
C18_SnapshotFixedPoint ==
    fpc = "read_back_done" =>
        /\ out[2] = out[1]
        /\ sha256_text(out[2]) = sha256_text(canonical_snapshot(arg))
        /\ ~Changed(canonical_snapshot(arg), out[1])

C18_Witness ==
    /\ fpc = "read_back_done"
    /\ Len(arg) = 2
    /\ arg[1].name = <<NBSP, 65, CR, LF, 66>> /\ arg[1].sell = None
    /\ arg[2].name = <<>> /\ arg[2].unit = <<NBSP>>
    /\ out[2] = out[1]

----------------------------------------------------------------------------
\* The canonical snapshot of the page run p observed.
ObservedSnapshot(p) == canonical_snapshot(ParseRows(Pages[log[p].page].rows))

\* C14: with at most one run active at a time no update is lost: a run
\* writes the snapshot of its own observation, and no store is ever
\* overwritten with the snapshot of an observation older than the
\* observation of the snapshot it holds.
C14_NoLostUpdate ==
    /\ Cardinality({p \in Runs : pc[p] # "idle"}) <= 1
    /\ ~obs.lost
    /\ \A p \in Runs :
        /\ ~obs.newer[p].gist /\ ~obs.newer[p].file
        /\ \A i \in 1..Len(log[p].writes) :
               (i = Len(log[p].writes) /\ log[p].writes[i].ok) =>
                   /\ log[p].page \in PageIds
                   /\ Persisted(log[p].writes[i].to) = ObservedSnapshot(p)

C14_Witness ==
    \E p \in Runs :
        /\ pc[p] = "done" /\ log[p].exit = "committed"
        /\ prev.exit = "committed"
        /\ log[p].gist0.status = "file" /\ log[p].gist0.content \in CanonicalSnapshots
        /\ gist.content # log[p].gist0.content
        /\ gist.content = ObservedSnapshot(p)

----------------------------------------------------------------------------
\* C19: while the store started empty and every read and every write of it
\* succeeded, a run decides to notify, and then attempts it, exactly when
\* its canonical snapshot differs from the snapshot of the last delivered
\* notification (the empty text when there was none); no notification is
\* delivered with the snapshot of the one delivered before it.
C19_NotifyIffNew ==
    hist.clean =>
        /\ ~hist.repeated
        /\ (\A q \in Runs : pc[q] = "idle") => Persisted(Backend) = hist.delivered
        /\ \A p \in Runs :
            /\ pc[p] = "compare" => canonicalize_text_blob(last_text[p]) = hist.delivered
            /\ pc[p] \in {"render", "send"} =>
                   log[p].changed /\ snapshot_text[p] # hist.delivered
            /\ pc[p] = "send" => Len(log[p].tries) = attempt[p] - 1
            /\ (pc[p] = "done" /\ log[p].exit = "unchanged") =>
                   ~log[p].changed /\ snapshot_text[p] = hist.delivered /\ log[p].tries = <<>>
            /\ (pc[p] = "done" /\ log[p].exit = "delivery_failed") =>
                   log[p].changed /\ snapshot_text[p] # hist.delivered /\ log[p].tries # <<>>
            /\ (pc[p] \in {"save", "fallback"} \/ (pc[p] = "done" /\ log[p].exit = "committed")) =>
                   log[p].changed /\ log[p].sent /\ snapshot_text[p] = hist.delivered

C19_Witness ==
    \E p \in Runs :
        /\ hist.clean
        /\ pc[p] = "done" /\ log[p].exit = "unchanged"
        /\ prev.exit = "committed"
        /\ snapshot_text[p] = hist.delivered /\ hist.delivered # <<>>
        /\ log[p].gist0.content = hist.delivered

----------------------------------------------------------------------------
\* The steps main allows from one position to the next: idle is Idle,
\* fetch, load and compare precede the decision, render is Changed-Detected
\* and Rendering, send is Sending, save and fallback are Committing.
Path ==
    {<<"idle", "fetch">>, <<"idle", "done">>, <<"fetch", "load">>, <<"fetch", "done">>,
     <<"load", "compare">>, <<"compare", "render">>, <<"compare", "done">>,
     <<"render", "send">>, <<"send", "save">>, <<"send", "done">>,
     <<"save", "fallback">>, <<"save", "done">>, <<"fallback", "done">>, <<"done", "idle">>}

OnPath(p) ==
    pc'[p] # pc[p] =>
        /\ <<pc[p], pc'[p]>> \in Path
        /\ pc'[p] = "save" =>
               /\ pc[p] = "send"
               /\ log'[p].tries # <<>> /\ log'[p].tries[Len(log'[p].tries)]
        /\ pc'[p] = "send" => pc[p] = "render" /\ log[p].changed
        /\ pc'[p] = "render" => log'[p].changed
        /\ (pc[p] = "compare" /\ pc'[p] = "done") => log'[p].exit = "unchanged"

\* C15: every run follows Idle, Changed-Detected, Rendering, Sending,
\* Committing, Done or Idle, Unchanged, Done, or aborts; Committing is
\* entered only from Sending after a successful attempt, Sending only after
\* Rendering; and every run that has started reaches Done.
C15_PathsAndTermination ==
    /\ [][\A p \in Runs : OnPath(p)]_vars
    /\ \A p \in Runs : (pc[p] # "idle") ~> (pc[p] = "done")

C15_Witness ==
    \E p \in Runs :
        /\ pc[p] = "done" /\ log[p].exit = "committed"
        /\ log[p].tries = <<FALSE, TRUE>>
        /\ log[p].writes = <<[to |-> "gist", ok |-> FALSE], [to |-> "file", ok |-> TRUE]>>

----------------------------------------------------------------------------
\* C20: when two runs overlap, with their fetches, reads, sends and writes
\* interleaved in any order, each store still holds its initial content or
\* a canonical snapshot written by a run after that run's notification of it
\* was delivered.
C20_OverlapPersistedDelivered ==
    /\ \A s \in {"gist", "file"} :
         \/ origin[s] = "init" /\ (IF s = "gist" THEN gist \in InitGists ELSE file \in InitFiles)
         \/ origin[s] = "sent" /\ Persisted(s) \in CanonicalSnapshots
    /\ \A p \in Runs :
         (pc[p] \in {"save", "fallback"} \/ log[p].writes # <<>>) =>
             /\ log[p].sent /\ log[p].tries[Len(log[p].tries)]
             /\ SavedText(p) \in CanonicalSnapshots

C20_Witness ==
    \E p, q \in Runs :
        /\ pc[p] = "done" /\ log[p].exit = "committed"
        /\ pc[q] \in {"send", "save"} /\ log[q].gist0 = log[p].gist0
        /\ snapshot_text[q] # snapshot_text[p]
        /\ origin.gist = "sent" /\ gist.content = snapshot_text[p]

\* Overlapping runs can lose an update: the order of observations is kept
\* by the single-flight guarantee alone.
OverlapLosesUpdate == obs.lost

====
